---- MODULE Spec2Model ----
(***************************************************************************)
(* The Thrift server skeleton of the Hive metastore                        *)
(* (metastore/src/gen-cpp/ThriftHiveMetastore_server.skeleton.cpp).        *)
(*                                                                         *)
(* ThriftHiveMetastoreHandler has no data members.  Each of its 28         *)
(* operations prints its own name and returns: the _return out-parameter   *)
(* is not assigned, nothing is thrown, and the six operations declared     *)
(* bool flow off the end of the function without a return statement, so    *)
(* the value the caller receives is indeterminate.  main() hands the       *)
(* handler to a TSimpleServer, which runs one handler call at a time.      *)
(*                                                                         *)
(* Strings that the partition-name codec has to take apart are sequences   *)
(* of one-character strings; all other names are TLA+ strings.             *)
(***************************************************************************)
EXTENDS Integers, Sequences, FiniteSets, TLC

\* ------------------------------------------------------------------------
\* Bounds of the model
\* ------------------------------------------------------------------------

\* get_partitions / get_partition_names are called with max_parts in
\* -1 .. MaxLimit (the int16_t limit, cut to the values that differ in effect).
MaxLimit == 1

\* Connections that have a call outstanding at the same time.
Clients == {"c1", "c2"}

\* ------------------------------------------------------------------------
\* Values of the Thrift structs the operations exchange
\* ------------------------------------------------------------------------

NoReturn == "no _return"
Void     == "void"

EmptyDatabase == [name |-> "", description |-> ""]
TheDatabase   == [name |-> "d", description |-> "warehouse"]
DatabaseValues == {EmptyDatabase, TheDatabase}

\* A Type: its name and its fields, each field a (name, type name) pair.
EmptyType == [name |-> "", fields |-> <<>>]
TypeA     == [name |-> "A", fields |-> <<[name |-> "f", type |-> "B"]>>]
TypeB     == [name |-> "B", fields |-> <<[name |-> "g", type |-> "A"]>>]
TypeC     == [name |-> "C", fields |-> <<[name |-> "h", type |-> "string"]>>]
NewTypes  == {TypeA, TypeB}
TypeValues == {EmptyType, TypeC}
PrimitiveTypes == {"string", "int"}

\* Partition keys and values, as character sequences.
KeyDs == <<"d", "s">>
KeyHr == <<"h", "r">>
Val1  == <<"1">>
Val2  == <<"a", "/", "=">>
PartitionKeys == <<KeyDs>>
PartVals == {<<Val2>>}

EmptyTable == [dbName |-> "", tableName |-> "", partitionKeys |-> <<>>]
TheTable   == [dbName |-> "d", tableName |-> "t", partitionKeys |-> PartitionKeys]
TableValues == {EmptyTable, TheTable}

EmptyPartition == [dbName |-> "", tableName |-> "", values |-> <<>>]
Part(v) == [dbName |-> "d", tableName |-> "t", values |-> v]
NewPartitions == {Part(v) : v \in PartVals}
PartitionValues == {EmptyPartition, Part(<<Val1>>)}
PartitionLists  == {<<>>, <<Part(<<Val1>>)>>}
\* A position of a partial value list that matches any value.
Wildcard == <<>>

NameLists  == {<<>>, <<"x">>}
FieldLists == {<<>>, <<[name |-> "f", type |-> "string"]>>}
TypeMaps   == {<<>>, <<TypeC>>}
ConfigStrings == {"", "v"}

\* ------------------------------------------------------------------------
\* The partition-name codec of the catalog design (Identifier Codec):
\* key=value components joined by "/", each value escaped.
\* ------------------------------------------------------------------------

EscapeChar(ch) ==
    CASE ch = "/" -> <<"%", "2", "F">>
      [] ch = "=" -> <<"%", "3", "D">>
      [] ch = "%" -> <<"%", "2", "5">>
      [] OTHER    -> <<ch>>

RECURSIVE Escape(_)
Escape(s) == IF s = <<>> THEN <<>> ELSE EscapeChar(Head(s)) \o Escape(Tail(s))

RECURSIVE encode(_, _)
encode(keys, values) ==
    IF keys = <<>> THEN <<>>
    ELSE LET first == Head(keys) \o <<"=">> \o Escape(Head(values))
         IN  IF Len(keys) = 1 THEN first
             ELSE first \o <<"/">> \o encode(Tail(keys), Tail(values))

RECURSIVE SplitOn(_, _)
SplitOn(s, sep) ==
    IF \A i \in 1..Len(s) : s[i] # sep THEN <<s>>
    ELSE LET i == CHOOSE k \in 1..Len(s) :
                      s[k] = sep /\ \A j \in 1..(k - 1) : s[j] # sep
         IN  <<SubSeq(s, 1, i - 1)>> \o SplitOn(SubSeq(s, i + 1, Len(s)), sep)

Malformed == [ok |-> FALSE, values |-> <<>>]

RECURSIVE Unescape(_)
Unescape(s) ==
    IF s = <<>> THEN [ok |-> TRUE, val |-> <<>>]
    ELSE IF Head(s) = "%"
    THEN IF Len(s) < 3 THEN [ok |-> FALSE, val |-> <<>>]
         ELSE LET code == SubSeq(s, 2, 3)
                  ch   == CASE code = <<"2", "F">> -> "/"
                            [] code = <<"3", "D">> -> "="
                            [] code = <<"2", "5">> -> "%"
                            [] OTHER -> ""
                  rest == Unescape(SubSeq(s, 4, Len(s)))
              IN  IF ch = "" \/ ~rest.ok THEN [ok |-> FALSE, val |-> <<>>]
                  ELSE [ok |-> TRUE, val |-> <<ch>> \o rest.val]
    ELSE LET rest == Unescape(Tail(s))
         IN  IF ~rest.ok THEN rest ELSE [ok |-> TRUE, val |-> <<Head(s)>> \o rest.val]

\* One component "key=value" against the key expected at its position.
DecodeComponent(key, comp) ==
    LET kv == SplitOn(comp, "=")
    IN  IF Len(kv) # 2 \/ kv[1] # key THEN [ok |-> FALSE, val |-> <<>>]
        ELSE Unescape(kv[2])

decode(keys, name) ==
    LET comps == SplitOn(name, "/")
    IN  IF Len(comps) # Len(keys) THEN Malformed
        ELSE LET parts == [i \in 1..Len(keys) |-> DecodeComponent(keys[i], comps[i])]
             IN  IF \E i \in 1..Len(keys) : ~parts[i].ok THEN Malformed
                 ELSE [ok |-> TRUE, values |-> [i \in 1..Len(keys) |-> parts[i].val]]

\* The names callers address partitions by: the encodings of the value lists,
\* and one name with two components (the table has one partition key).
WrongArityName == encode(<<KeyDs, KeyHr>>, <<Val1, Val1>>)
PartNames == {encode(PartitionKeys, v) : v \in PartVals} \cup {WrongArityName}

\* ------------------------------------------------------------------------
\* The calls clients make: one record per operation and argument list
\* ------------------------------------------------------------------------

None == [op |-> "none"]

Limits == (-1)..MaxLimit

Requests ==
    {[op |-> "create_database", name |-> "d", description |-> "warehouse"],
     [op |-> "get_database", name |-> "d"],
     [op |-> "drop_database", name |-> "d"],
     [op |-> "get_databases"],
     [op |-> "get_type", name |-> "A"],
     [op |-> "drop_type", type_name |-> "A"],
     [op |-> "get_type_all", name |-> "A"],
     [op |-> "get_fields", db_name |-> "d", table_name |-> "t"],
     [op |-> "get_schema", db_name |-> "d", table_name |-> "t"],
     [op |-> "create_table", tbl |-> TheTable],
     [op |-> "drop_table", dbname |-> "d", name |-> "t", deleteData |-> FALSE],
     [op |-> "get_tables", db_name |-> "d", pattern |-> "*"],
     [op |-> "get_table", dbname |-> "d", tbl_name |-> "t"],
     [op |-> "alter_table", dbname |-> "d", tbl_name |-> "t", new_tbl |-> TheTable],
     [op |-> "get_config_value", name |-> "k", defaultValue |-> "v"]}
    \cup {[op |-> "create_type", type |-> ty] : ty \in NewTypes}
    \cup {[op |-> o, new_part |-> p] :
              o \in {"add_partition"}, p \in NewPartitions}
    \cup {[op |-> "alter_partition", db_name |-> "d", tbl_name |-> "t", new_part |-> p] :
              p \in NewPartitions}
    \cup {[op |-> o, db_name |-> "d", tbl_name |-> "t", part_vals |-> v] :
              o \in {"append_partition", "get_partition"}, v \in PartVals}
    \cup {[op |-> o, db_name |-> "d", tbl_name |-> "t", part_name |-> n] :
              o \in {"append_partition_by_name", "get_partition_by_name"}, n \in PartNames}
    \cup {[op |-> "drop_partition", db_name |-> "d", tbl_name |-> "t",
            part_vals |-> v, deleteData |-> FALSE] : v \in PartVals}
    \cup {[op |-> "drop_partition_by_name", db_name |-> "d", tbl_name |-> "t",
            part_name |-> n, deleteData |-> FALSE] : n \in PartNames}
    \cup {[op |-> o, db_name |-> "d", tbl_name |-> "t", max_parts |-> m] :
              o \in {"get_partitions", "get_partition_names"}, m \in Limits}
    \cup {[op |-> o, db_name |-> "d", tbl_name |-> "t",
            part_vals |-> <<Wildcard>>, max_parts |-> -1] :
              o \in {"get_partitions_ps", "get_partition_names_ps"}}

\* ------------------------------------------------------------------------
\* State
\* ------------------------------------------------------------------------

VARIABLES
    pending,   \* pending[c]: the call client c has sent and the server has not run yet
    reply,     \* reply[c]: the answer to c's last call, until c sends the next one
    acked,     \* what the answers so far tell the clients is in the catalog
    raced      \* clients whose add_partition calls were outstanding together

vars == <<pending, reply, acked, raced>>

\* The entity a partition call addresses, as the caller names it.
PartitionOf(db, tbl, vals) == [dbName |-> db, tableName |-> tbl, values |-> vals]

TablesNamed(a, db, tbl) == {t \in a.tables : t.dbName = db /\ t.tableName = tbl}

\* The partition a by-name call addresses: the name decoded with the partition
\* keys of the table, when the table is known and the name decodes.
Resolves(a, db, tbl, name) ==
    \E t \in TablesNamed(a, db, tbl) : decode(t.partitionKeys, name).ok

ResolvedPartition(a, db, tbl, name) ==
    LET t == CHOOSE t \in TablesNamed(a, db, tbl) : decode(t.partitionKeys, name).ok
    IN  PartitionOf(db, tbl, decode(t.partitionKeys, name).values)

BoolOps == {"create_database", "drop_database", "create_type", "drop_type",
            "drop_partition", "drop_partition_by_name"}

\* The answer reports that the operation was carried out: nothing was thrown, and
\* an operation declared bool returned true.
Succeeded(op, exc, result) == exc = "none" /\ (op \in BoolOps => result = TRUE)

\* The catalog as the clients are entitled to believe it: an entity is in it from
\* the answer that reports its creation until the answer that reports its drop.
Acknowledge(a, req, exc, result) ==
    IF ~Succeeded(req.op, exc, result) THEN a
    ELSE CASE req.op = "create_database" -> [a EXCEPT !.dbs = @ \cup {req.name}]
           [] req.op = "drop_database"   -> [a EXCEPT !.dbs = @ \ {req.name}]
           [] req.op = "create_type"     -> [a EXCEPT !.types = @ \cup {req.type}]
           [] req.op = "drop_type"       ->
                [a EXCEPT !.types = {ty \in @ : ty.name # req.type_name}]
           [] req.op = "create_table"    -> [a EXCEPT !.tables = @ \cup {req.tbl}]
           [] req.op = "drop_table"      ->
                [a EXCEPT !.tables = @ \ TablesNamed(a, req.dbname, req.name),
                          !.parts  = {p \in @ : ~(p.dbName = req.dbname
                                                   /\ p.tableName = req.name)}]
           [] req.op = "add_partition"   -> [a EXCEPT !.parts = @ \cup {req.new_part}]
           [] req.op = "append_partition" ->
                [a EXCEPT !.parts = @ \cup
                    {PartitionOf(req.db_name, req.tbl_name, req.part_vals)}]
           [] req.op = "append_partition_by_name" ->
                IF Resolves(a, req.db_name, req.tbl_name, req.part_name)
                THEN [a EXCEPT !.parts = @ \cup
                        {ResolvedPartition(a, req.db_name, req.tbl_name, req.part_name)}]
                ELSE a
           [] req.op = "drop_partition"  ->
                [a EXCEPT !.parts = @ \
                    {PartitionOf(req.db_name, req.tbl_name, req.part_vals)}]
           [] req.op = "drop_partition_by_name" ->
                IF Resolves(a, req.db_name, req.tbl_name, req.part_name)
                THEN [a EXCEPT !.parts = @ \
                        {ResolvedPartition(a, req.db_name, req.tbl_name, req.part_name)}]
                ELSE a
           [] OTHER -> a

\* The call a client has outstanding or has last been answered.
CallOf(pend, rep, c) == IF pend[c].op # "none" THEN pend[c] ELSE rep[c].req

IsAdd(call) == call.op = "add_partition"

TableKnown(a, p) == TablesNamed(a, p.dbName, p.tableName) # {}

\* A race: add_partition calls for one partition of an existing table, outstanding
\* together while that partition is absent.  It lasts until a participant sends
\* its next call, or another call stores or drops the partition or its table.
RaceOnIssue(c, r) ==
    LET old   == IF c \in raced
                 THEN {x \in raced : CallOf(pending, reply, x) = CallOf(pending, reply, c)}
                 ELSE {}
        rival == {x \in Clients \ {c} : pending[x] = r}
    IN  IF IsAdd(r) /\ rival # {} /\ r.new_part \notin acked.parts
           /\ TableKnown(acked, r.new_part)
        THEN ((raced \ old) \cup rival) \cup {c}
        ELSE raced \ old

RaceOnAnswer(c, after) ==
    {x \in raced :
        LET p == CallOf(pending, reply, x).new_part
        IN  /\ TableKnown(after, p)
            /\ ~(p \in acked.parts /\ p \notin after.parts)
            /\ ~(p \notin acked.parts /\ p \in after.parts /\ c \notin raced)}

Init ==
    /\ pending = [c \in Clients |-> None]
    /\ reply   = [c \in Clients |-> None]
    /\ acked   = [dbs |-> {}, tables |-> {}, parts |-> {}, types |-> {}]
    /\ raced   = {}

\* ------------------------------------------------------------------------
\* main: the server takes calls from its clients, one outstanding per connection
\* ------------------------------------------------------------------------

Issue(c, r) ==
    /\ pending[c].op = "none"
    /\ pending' = [pending EXCEPT ![c] = r]
    /\ reply'   = [reply EXCEPT ![c] = None]
    /\ raced'   = RaceOnIssue(c, r)
    /\ UNCHANGED acked

\* TSimpleServer runs the handler for one outstanding call at a time.
Calls(c, op) == pending[c].op = op

\* ------------------------------------------------------------------------
\* ThriftHiveMetastoreHandler
\* ------------------------------------------------------------------------

\* A skeleton whose bodies refuse the call instead of returning.
SkeletonThrows(name, _return) ==
    [printed |-> <<name>>, ret |-> _return, exc |-> "MetaException"]

\* The body every operation has: printf of its name, and nothing else.  _return
\* is left as the caller passed it and nothing is thrown.
Skeleton(name, _return) ==
    [printed |-> <<name>>, ret |-> _return, exc |-> "none"]

\* The call returns to the client; result is the value of a bool operation.
Complete(c, _return, out, result) ==
    LET after == Acknowledge(acked, pending[c], out.exc, result)
    IN  /\ reply' = [reply EXCEPT ![c] =
                        [op |-> pending[c].op, req |-> pending[c], in |-> _return,
                         printed |-> out.printed, ret |-> out.ret, exc |-> out.exc,
                         result |-> result]]
        /\ pending' = [pending EXCEPT ![c] = None]
        /\ acked' = after
        /\ raced' = RaceOnAnswer(c, after)

\* One action per operation.  An operation declared void with a _return parameter
\* is called with any value of its type in _return; an operation declared bool
\* reaches its closing brace without a return statement.

\* bool, and no return statement: the value returned is indeterminate.
create_database(c) ==
    /\ Calls(c, "create_database")
    /\ \E result \in BOOLEAN :
          Complete(c, NoReturn, Skeleton("create_database", NoReturn), result)

get_database(c) ==
    /\ Calls(c, "get_database")
    /\ \E _return \in DatabaseValues :
          Complete(c, _return, Skeleton("get_database", _return), Void)

\* bool, and no return statement: the value returned is indeterminate.
drop_database(c) ==
    /\ Calls(c, "drop_database")
    /\ \E result \in BOOLEAN :
          Complete(c, NoReturn, Skeleton("drop_database", NoReturn), result)

get_databases(c) ==
    /\ Calls(c, "get_databases")
    /\ \E _return \in NameLists :
          Complete(c, _return, Skeleton("get_databases", _return), Void)

get_type(c) ==
    /\ Calls(c, "get_type")
    /\ \E _return \in TypeValues :
          Complete(c, _return, Skeleton("get_type", _return), Void)

\* bool, and no return statement: the value returned is indeterminate.
create_type(c) ==
    /\ Calls(c, "create_type")
    /\ \E result \in BOOLEAN :
          Complete(c, NoReturn, Skeleton("create_type", NoReturn), result)

\* bool, and no return statement: the value returned is indeterminate.
drop_type(c) ==
    /\ Calls(c, "drop_type")
    /\ \E result \in BOOLEAN :
          Complete(c, NoReturn, Skeleton("drop_type", NoReturn), result)

get_type_all(c) ==
    /\ Calls(c, "get_type_all")
    /\ \E _return \in TypeMaps :
          Complete(c, _return, Skeleton("get_type_all", _return), Void)

get_fields(c) ==
    /\ Calls(c, "get_fields")
    /\ \E _return \in FieldLists :
          Complete(c, _return, Skeleton("get_fields", _return), Void)

get_schema(c) ==
    /\ Calls(c, "get_schema")
    /\ \E _return \in FieldLists :
          Complete(c, _return, Skeleton("get_schema", _return), Void)

create_table(c) ==
    /\ Calls(c, "create_table")
    /\ Complete(c, NoReturn, Skeleton("create_table", NoReturn), Void)

drop_table(c) ==
    /\ Calls(c, "drop_table")
    /\ Complete(c, NoReturn, Skeleton("drop_table", NoReturn), Void)

get_tables(c) ==
    /\ Calls(c, "get_tables")
    /\ \E _return \in NameLists :
          Complete(c, _return, Skeleton("get_tables", _return), Void)

get_table(c) ==
    /\ Calls(c, "get_table")
    /\ \E _return \in TableValues :
          Complete(c, _return, Skeleton("get_table", _return), Void)

alter_table(c) ==
    /\ Calls(c, "alter_table")
    /\ Complete(c, NoReturn, Skeleton("alter_table", NoReturn), Void)

add_partition(c) ==
    /\ Calls(c, "add_partition")
    /\ \E _return \in PartitionValues :
          Complete(c, _return, Skeleton("add_partition", _return), Void)

append_partition(c) ==
    /\ Calls(c, "append_partition")
    /\ \E _return \in PartitionValues :
          Complete(c, _return, Skeleton("append_partition", _return), Void)

append_partition_by_name(c) ==
    /\ Calls(c, "append_partition_by_name")
    /\ \E _return \in PartitionValues :
          Complete(c, _return, Skeleton("append_partition_by_name", _return), Void)

\* bool, and no return statement: the value returned is indeterminate.
drop_partition(c) ==
    /\ Calls(c, "drop_partition")
    /\ \E result \in BOOLEAN :
          Complete(c, NoReturn, Skeleton("drop_partition", NoReturn), result)

\* bool, and no return statement: the value returned is indeterminate.
drop_partition_by_name(c) ==
    /\ Calls(c, "drop_partition_by_name")
    /\ \E result \in BOOLEAN :
          Complete(c, NoReturn, Skeleton("drop_partition_by_name", NoReturn), result)

get_partition(c) ==
    /\ Calls(c, "get_partition")
    /\ \E _return \in PartitionValues :
          Complete(c, _return, Skeleton("get_partition", _return), Void)

get_partition_by_name(c) ==
    /\ Calls(c, "get_partition_by_name")
    /\ \E _return \in PartitionValues :
          Complete(c, _return, Skeleton("get_partition_by_name", _return), Void)

get_partitions(c) ==
    /\ Calls(c, "get_partitions")
    /\ \E _return \in PartitionLists :
          Complete(c, _return, Skeleton("get_partitions", _return), Void)

get_partition_names(c) ==
    /\ Calls(c, "get_partition_names")
    /\ \E _return \in NameLists :
          Complete(c, _return, Skeleton("get_partition_names", _return), Void)

get_partitions_ps(c) ==
    /\ Calls(c, "get_partitions_ps")
    /\ \E _return \in PartitionLists :
          Complete(c, _return, Skeleton("get_partitions_ps", _return), Void)

get_partition_names_ps(c) ==
    /\ Calls(c, "get_partition_names_ps")
    /\ \E _return \in NameLists :
          Complete(c, _return, Skeleton("get_partition_names_ps", _return), Void)

alter_partition(c) ==
    /\ Calls(c, "alter_partition")
    /\ Complete(c, NoReturn, Skeleton("alter_partition", NoReturn), Void)

get_config_value(c) ==
    /\ Calls(c, "get_config_value")
    /\ \E _return \in ConfigStrings :
          Complete(c, _return, Skeleton("get_config_value", _return), Void)

Next ==
    \E c \in Clients :
        \/ \E r \in Requests : Issue(c, r)
        \/ create_database(c)
        \/ get_database(c)
        \/ drop_database(c)
        \/ get_databases(c)
        \/ get_type(c)
        \/ create_type(c)
        \/ drop_type(c)
        \/ get_type_all(c)
        \/ get_fields(c)
        \/ get_schema(c)
        \/ create_table(c)
        \/ drop_table(c)
        \/ get_tables(c)
        \/ get_table(c)
        \/ alter_table(c)
        \/ add_partition(c)
        \/ append_partition(c)
        \/ append_partition_by_name(c)
        \/ drop_partition(c)
        \/ drop_partition_by_name(c)
        \/ get_partition(c)
        \/ get_partition_by_name(c)
        \/ get_partitions(c)
        \/ get_partition_names(c)
        \/ get_partitions_ps(c)
        \/ get_partition_names_ps(c)
        \/ alter_partition(c)
        \/ get_config_value(c)

Spec == Init /\ [][Next]_vars

\* ------------------------------------------------------------------------
\* Vocabulary of the claims
\* ------------------------------------------------------------------------

\* This step runs the handler for c's outstanding call of operation op.
Answered(c, op) == pending[c].op = op /\ pending'[c].op = "none"

\* The call was made as the Thrift processor makes it, with an empty _return.
Fresh(r) ==
    IF r.op \in {"add_partition", "append_partition", "append_partition_by_name",
                 "get_partition", "get_partition_by_name"}
    THEN r.in = EmptyPartition
    ELSE r.in = <<>>

StoredIn(a, db, tbl) == {p \in a.parts : p.dbName = db /\ p.tableName = tbl}

Elements(list) == {list[i] : i \in 1..Len(list)}

NoRepeats(list) == \A i, j \in 1..Len(list) : i # j => list[i] # list[j]

\* Some client holds the answer that reports the drop of the entity.
TableDropped(db, tbl) ==
    \E d \in Clients : /\ reply[d].op = "drop_table"
                        /\ reply[d].exc = "none"
                        /\ reply[d].req.dbname = db
                        /\ reply[d].req.name = tbl

PartitionDroppedByName(p) ==
    \E d \in Clients :
        /\ reply[d].op = "drop_partition_by_name"
        /\ Succeeded(reply[d].op, reply[d].exc, reply[d].result)
        /\ Resolves(acked, reply[d].req.db_name, reply[d].req.tbl_name,
                    reply[d].req.part_name)
        /\ ResolvedPartition(acked, reply[d].req.db_name, reply[d].req.tbl_name,
                             reply[d].req.part_name) = p

TypeNames(types) == {ty.name : ty \in types}

References(ty) == {ty.fields[i].type : i \in 1..Len(ty.fields)} \ PrimitiveTypes

\* The type names reachable from the names in `from` along references.
RECURSIVE Reachable(_, _)
Reachable(types, from) ==
    LET next == from \cup UNION {References(ty) : ty \in {x \in types : x.name \in from}}
    IN  IF next = from THEN from ELSE Reachable(types, next)

Closed(types) == \A ty \in types : References(ty) \subseteq TypeNames(types)

Acyclic(types) == \A ty \in types : ty.name \notin Reachable(types, References(ty))

\* ------------------------------------------------------------------------
\* Claims
\* ------------------------------------------------------------------------

\* C1: an add_partition for a value list already stored in the table fails with
\* AlreadyExists, the first add_partition for an absent value list of the right
\* arity succeeds, and a listing of the table never holds the same value list
\* twice.
C1_AddPartitionTwice ==
    [][\A c \in Clients :
        /\ Answered(c, "add_partition") =>
              LET p == pending[c].new_part
              IN  /\ (p \in acked.parts /\ TableKnown(acked, p))
                        => reply'[c].exc = "AlreadyExists"
                  /\ (p \notin acked.parts /\ TableKnown(acked, p)
                        /\ \A t \in TablesNamed(acked, p.dbName, p.tableName) :
                              Len(t.partitionKeys) = Len(p.values))
                     => reply'[c].exc = "none"
        /\ (Answered(c, "get_partitions") /\ Fresh(reply'[c]))
              => NoRepeats(reply'[c].ret)]_vars

\* C2: of the add_partition calls for one absent value list of an existing table
\* that are outstanding together, exactly one succeeds and every other one fails
\* with AlreadyExists; at no time have two of them succeeded.
C2_ConcurrentAddOneWinner ==
    \A p \in NewPartitions :
        LET racers == {x \in raced : CallOf(pending, reply, x).new_part = p}
            done   == {x \in racers : pending[x].op = "none"}
            won    == {x \in done : reply[x].exc = "none"}
        IN  /\ Cardinality(won) <= 1
            /\ \A x \in done \ won : reply[x].exc = "AlreadyExists"
            /\ (racers # {} /\ done = racers) => Cardinality(won) = 1

\* C3: get_partition by value list and get_partition_by_name by the encoded name
\* both return the stored partition, and both fail with NotFound for a value
\* list that is not stored.
C3_GetByValueAndByName ==
    [][\A c \in Clients :
        /\ (Answered(c, "get_partition")
             /\ TablesNamed(acked, pending[c].db_name, pending[c].tbl_name) # {}) =>
              LET r == pending[c]
                  p == PartitionOf(r.db_name, r.tbl_name, r.part_vals)
              IN  /\ p \notin acked.parts => reply'[c].exc = "NotFound"
                  /\ p \in acked.parts =>
                        reply'[c].exc = "none" /\ reply'[c].ret = p
        /\ (Answered(c, "get_partition_by_name")
             /\ Resolves(acked, pending[c].db_name, pending[c].tbl_name,
                         pending[c].part_name)) =>
              LET r == pending[c]
                  p == ResolvedPartition(acked, r.db_name, r.tbl_name, r.part_name)
              IN  /\ p \notin acked.parts => reply'[c].exc = "NotFound"
                  /\ p \in acked.parts =>
                        reply'[c].exc = "none" /\ reply'[c].ret = p]_vars

\* C4: decoding the encoding of a value list of the table's arity gives the value
\* list back, also when a value holds "/" or "="; a by-name call whose name has
\* another number of components than the table has partition keys fails with
\* MalformedIdentifier.
C4_NameRoundTrip ==
    [][\A c \in Clients :
        \A op \in {"append_partition_by_name", "get_partition_by_name",
                    "drop_partition_by_name"} :
            Answered(c, op) =>
                \A t \in TablesNamed(acked, pending[c].db_name, pending[c].tbl_name) :
                    LET name == pending[c].part_name
                        keys == t.partitionKeys
                    IN  /\ Len(SplitOn(name, "/")) # Len(keys)
                              => reply'[c].exc = "MalformedIdentifier"
                        /\ \A v \in PartVals :
                              name = encode(keys, v) =>
                                /\ decode(keys, name) = [ok |-> TRUE, values |-> v]
                                /\ reply'[c].exc # "MalformedIdentifier"]_vars

\* C5: drop_database of an existing database that owns a table fails with
\* NotEmpty and leaves the database and its tables in place; with no table left
\* the same call raises no error.
C5_DropDatabaseNotEmpty ==
    [][\A c \in Clients :
        Answered(c, "drop_database") =>
              LET name  == pending[c].name
                  owned == {t \in acked.tables : t.dbName = name}
              IN  /\ (name \in acked.dbs /\ owned # {})
                        => reply'[c].exc = "NotEmpty" /\ acked' = acked
                  /\ (name \in acked.dbs /\ owned = {})
                        => reply'[c].exc = "none"]_vars

\* C6: every stored partition belongs to a table that exists, and once a
\* drop_table has completed no partition read of that table returns a partition.
C6_NoPartitionWithoutTable ==
    [][/\ \A p \in acked'.parts : TableKnown(acked', p)
       /\ \A c \in Clients :
            \A op \in {"get_partition", "get_partition_by_name", "get_partitions",
                        "get_partition_names", "get_partitions_ps",
                        "get_partition_names_ps"} :
                (/\ Answered(c, op)
                 /\ TablesNamed(acked, pending[c].db_name, pending[c].tbl_name) = {}
                 /\ TableDropped(pending[c].db_name, pending[c].tbl_name))
                => \/ reply'[c].exc # "none"
                   \/ (op \notin {"get_partition", "get_partition_by_name"}
                        /\ reply'[c].ret = <<>>)]_vars

\* C7: on an existing table with stored partitions S, get_partitions and
\* get_partition_names return all of S for max_parts = -1, nothing for
\* max_parts = 0, and at most k entries of S without repetition for
\* max_parts = k > 0.
C7_MaxParts ==
    [][\A c \in Clients :
        \A op \in {"get_partitions", "get_partition_names"} :
            (Answered(c, op) /\ Fresh(reply'[c])) =>
                \A t \in TablesNamed(acked, pending[c].db_name, pending[c].tbl_name) :
                    LET S     == StoredIn(acked, t.dbName, t.tableName)
                        all   == IF op = "get_partitions" THEN S
                                 ELSE {encode(t.partitionKeys, p.values) : p \in S}
                        m     == pending[c].max_parts
                        list  == reply'[c].ret
                    IN  /\ reply'[c].exc = "none"
                        /\ Elements(list) \subseteq all
                        /\ NoRepeats(list)
                        /\ m = -1 => Elements(list) = all
                        /\ m = 0 => list = <<>>
                        /\ m > 0 => Len(list) <= m]_vars

\* C8: append_partition of an absent value list succeeds and returns the partition
\* named encode(keys, v); append_partition_by_name of that name then fails with
\* AlreadyExists; drop_partition_by_name of the name succeeds; get_partition of
\* the value list then fails with NotFound.
C8_TwoAddressingModes ==
    [][\A c \in Clients :
        /\ (Answered(c, "append_partition") /\ Fresh(reply'[c])) =>
              LET r == pending[c]
                  p == PartitionOf(r.db_name, r.tbl_name, r.part_vals)
              IN  \A t \in TablesNamed(acked, r.db_name, r.tbl_name) :
                      (p \notin acked.parts /\ Len(r.part_vals) = Len(t.partitionKeys))
                      => /\ reply'[c].exc = "none"
                         /\ Len(reply'[c].ret.values) = Len(t.partitionKeys)
                         /\ encode(t.partitionKeys, reply'[c].ret.values)
                                = encode(t.partitionKeys, r.part_vals)
        /\ \A op \in {"append_partition_by_name", "drop_partition_by_name"} :
              (Answered(c, op)
               /\ Resolves(acked, pending[c].db_name, pending[c].tbl_name,
                           pending[c].part_name)) =>
                 LET r == pending[c]
                     p == ResolvedPartition(acked, r.db_name, r.tbl_name, r.part_name)
                 IN  p \in acked.parts =>
                        reply'[c].exc = (IF op = "append_partition_by_name"
                                         THEN "AlreadyExists" ELSE "none")
        /\ Answered(c, "get_partition") =>
              LET r == pending[c]
                  p == PartitionOf(r.db_name, r.tbl_name, r.part_vals)
              IN  (/\ p \notin acked.parts
                   /\ PartitionDroppedByName(p))
                  => reply'[c].exc = "NotFound"]_vars

\* C9: the reference graph of the created types is closed and acyclic; create_type
\* of a type that references an undefined type fails with UnknownReference, one
\* that would complete a cycle fails with CyclicDependency, and a failed
\* create_type leaves the registry as it was.
C9_TypeGraphClosedAcyclic ==
    [][/\ Closed(acked'.types)
       /\ Acyclic(acked'.types)
       /\ \A c \in Clients :
            Answered(c, "create_type") =>
              LET ty    == pending[c].type
                  cycle == ~Acyclic(acked.types \cup {ty})
                  open  == ~(References(ty) \subseteq
                                TypeNames(acked.types) \cup {ty.name})
              IN  /\ cycle => reply'[c].exc = "CyclicDependency"
                  /\ (open /\ ~cycle) => reply'[c].exc = "UnknownReference"
                  /\ reply'[c].exc # "none" => acked'.types = acked.types]_vars

\* C10: the handler keeps no catalog state: every call, whatever was called
\* before it, prints only the name of its operation, leaves _return as the caller
\* passed it and signals no error.
C10_HandlerDoesNothing ==
    \A c \in Clients :
        reply[c].op # "none" =>
            /\ reply[c].printed = <<reply[c].op>>
            /\ reply[c].ret = reply[c].in
            /\ reply[c].exc = "none"

\* C10 witness: a partition was added and acknowledged, and a later get_partition
\* of it came back with the empty _return it was given.
C10_Witness ==
    \E c \in Clients :
        /\ reply[c].op = "get_partition"
        /\ PartitionOf(reply[c].req.db_name, reply[c].req.tbl_name,
                       reply[c].req.part_vals) \in acked.parts
        /\ reply[c].in = EmptyPartition
        /\ reply[c].ret = EmptyPartition

====
